---------------------------- MODULE Spec2Model ----------------------------
(***************************************************************************)
(* State-machine model of the clash-launcher backend                       *)
(* (src/clash-launcher/src-tauri/src/lib.rs): the release resolver         *)
(* check_for_updates, the updater download_and_extract_updates with its    *)
(* nested download_file / extract_tar_gz, the port reclaimer               *)
(* kill_process_using_port, and the process supervisor: start_game,        *)
(* start_server with its two relay tasks, stop_server, stop_game and the   *)
(* stop listeners registered by run.                                       *)
(*                                                                         *)
(* Rust values are encoded as follows.                                     *)
(*   Option<T>        None == <<>>,  Some(x) == <<x>>                      *)
(*   Result<T, E>     Ok(v) == <<"Ok", v>>,  Err(e) == <<"Err", e>>        *)
(*   format!(...)     the sequence of its literal pieces and arguments     *)
(*   String (names)   a sequence of string fragments, so that starts_with  *)
(*                    and ends_with are computed, not assumed              *)
(*   file contents    a sequence of bytes                                  *)
(***************************************************************************)
EXTENDS Integers, Sequences, FiniteSets, TLC

\* ------------------------------------------------------------------------
\* Bounds of the model
\* ------------------------------------------------------------------------

\* Longest asset list of a release description.
MaxAssets == 3

\* Longest response body of an artifact download, in bytes.
MaxBody == 2

\* Number of other processes on the machine.
MaxPids == 3

\* Number of processes the supervisor spawns.
MaxChildren == 1

\* Longest output of a server on one of its streams, in lines.
MaxLines == 2

\* Largest number of worker threads of the async runtime.
MaxWorkers == 2

\* ------------------------------------------------------------------------
\* State
\* ------------------------------------------------------------------------

\* check_for_updates: the position of the running call, its argument, the
\* response, the decoded release, the value returned, and the number of
\* requests the call has sent.
VARIABLES cfu_pc, cfu_tag, cfu_resp, cfu_release, cfu_result, cfu_requests

\* download_and_extract_updates: the position of the running call and the
\* value returned; the directories, staging files and install roots on
\* disk; per download_file future its position, the part of the body still
\* to come, the chunks delivered, the chunk being written and the write its
\* file has queued; per extract_tar_gz future its position.
VARIABLES dae_pc, dae_result, dirs, files, roots,
          dl_pc, dl_body, dl_chunks, dl_cur, wr, ex_pc

\* kill_process_using_port: the build (cfg(windows) or not), the live
\* processes, the process listening on the port, the processes with another
\* socket on it, the probe listener; the position of the running call, the
\* pid text taken from the inspection tool, the value returned, and for the
\* running call the listener found at its start, the commands it ran, the
\* inspection output and the processes it terminated.
VARIABLES windows, procs, listener, clients, probe_bound,
          kp_pc, kp_pid, kp_result, kp_owner, kp_cmds, kp_out, kp_killed

\* The process supervisor.  num_workers is the number of worker threads of
\* the async runtime and exes the kinds whose executable is on disk.
\* children maps the pid of every process spawned so far to its kind and
\* arguments.  For a server, written[p][s] is what it has written to stream
\* s, rd[p][s] the number of items the relay has read, closed[p][s] whether
\* it has closed the stream, and relay[p][s] the state of the relay task.
\* events is the sequence of events received by the frontend.  ss_pc,
\* ss_result, ss_reclaim, ss_port and ss_child are the position of the
\* running start_server call, the value it returned, the value the port
\* reclaimer returned to it, the listener of the port when it spawned, and
\* the pid it spawned; sg_result and sg_child are the same for the last
\* start_game call.  st_event and st_result are the event broadcast by the
\* last stop command and the value it returned, kills the termination
\* commands spawned by the listeners that have not yet run, and stopped
\* the processes such commands have terminated.
VARIABLES num_workers, exes, children, written, rd, closed, relay, events,
          ss_pc, ss_result, ss_reclaim, ss_port, ss_child,
          sg_result, sg_child, st_event, st_result, kills, stopped

rvars == <<cfu_pc, cfu_tag, cfu_resp, cfu_release, cfu_result, cfu_requests>>

uvars == <<dae_pc, dae_result, dirs, files, roots,
           dl_pc, dl_body, dl_chunks, dl_cur, wr, ex_pc>>

pvars == <<windows, procs, listener, clients, probe_bound,
           kp_pc, kp_pid, kp_result, kp_owner, kp_cmds, kp_out, kp_killed>>

svars == <<num_workers, exes, children, written, rd, closed, relay, events,
           ss_pc, ss_result, ss_reclaim, ss_port, ss_child,
           sg_result, sg_child, st_event, st_result, kills, stopped>>

vars == <<rvars, uvars, pvars, svars>>

\* ------------------------------------------------------------------------
\* Rust Option / Result
\* ------------------------------------------------------------------------

None == <<>>

Some(x) == <<x>>

Ok(v) == <<"Ok", v>>

Err(e) == <<"Err", e>>

IsOk(r) == r[1] = "Ok"

IsErr(r) == r[1] = "Err"

\* All sequences over S of length at most n.
SeqUpTo(S, n) == UNION {[1..k -> S] : k \in 0..n}

\* ------------------------------------------------------------------------
\* Release resolver: check_for_updates
\* ------------------------------------------------------------------------

Tags == {"v1", "v2"}

Urls == {"url-a", "url-b", "url-c"}

\* Asset names, as fragment sequences: a client archive, a server archive,
\* a name with the client prefix but another suffix, and a name with the
\* archive suffix but another prefix.
AssetNames == { <<"client-", "v2", ".tar.gz">>,
                <<"server-", "v2", ".tar.gz">>,
                <<"client-", "v2", ".zip">>,
                <<"notes-", "v2", ".tar.gz">> }

\* struct GitHubAsset
GitHubAsset == [name : AssetNames, browser_download_url : Urls]

\* struct GitHubRelease
GitHubRelease == [tag_name : Tags, assets : SeqUpTo(GitHubAsset, MaxAssets)]

\* HTTP status codes the endpoint may answer with; is_success() is 2xx.
Statuses == {200, 404}

is_success(status) == status >= 200 /\ status < 300

\* A response body: the JSON text of a release, or text that is no such JSON.
JsonOf(release) == <<"json", release>>

BadJson == <<"garbage">>

Bodies == {JsonOf(r) : r \in GitHubRelease} \cup {BadJson}

\* A decoder that substitutes an empty release for text that is no JSON.
DecodeReleaseLenient(body) ==
    IF body[1] = "json" THEN Ok(body[2])
    ELSE Ok([tag_name |-> "v1", assets |-> <<>>])

\* response.json::<GitHubRelease>()
DecodeRelease(body) ==
    IF body[1] = "json" THEN Ok(body[2]) ELSE Err("json")

starts_with(name, prefix) == Len(name) >= 1 /\ name[1] = prefix

ends_with(name, suffix) == Len(name) >= 1 /\ name[Len(name)] = suffix

IsClientAsset(asset) ==
    starts_with(asset.name, "client-") /\ ends_with(asset.name, ".tar.gz")

\* The else-if arm: reached only when the client test failed.
IsServerAsset(asset) ==
    /\ ~IsClientAsset(asset)
    /\ starts_with(asset.name, "server-") /\ ends_with(asset.name, ".tar.gz")

\* Variant of ScanAssets that keeps the first match of each kind and
\* ignores later ones.
RECURSIVE ScanAssetsFirst(_, _, _, _)
ScanAssetsFirst(assets, i, client_url, server_url) ==
    IF i > Len(assets) THEN <<client_url, server_url>>
    ELSE IF IsClientAsset(assets[i])
         THEN ScanAssetsFirst(assets, i + 1,
                  IF client_url = None
                  THEN Some(assets[i].browser_download_url) ELSE client_url,
                  server_url)
         ELSE IF IsServerAsset(assets[i])
              THEN ScanAssetsFirst(assets, i + 1, client_url,
                       IF server_url = None
                       THEN Some(assets[i].browser_download_url) ELSE server_url)
              ELSE ScanAssetsFirst(assets, i + 1, client_url, server_url)

\* The for loop over release_info.assets: every matching asset overwrites
\* the url found so far for its kind.
RECURSIVE ScanLoop(_, _, _, _)
ScanLoop(assets, i, client_url, server_url) ==
    IF i > Len(assets) THEN <<client_url, server_url>>
    ELSE IF IsClientAsset(assets[i])
         THEN ScanLoop(assets, i + 1,
                  Some(assets[i].browser_download_url), server_url)
         ELSE IF IsServerAsset(assets[i])
              THEN ScanLoop(assets, i + 1, client_url,
                       Some(assets[i].browser_download_url))
              ELSE ScanLoop(assets, i + 1, client_url, server_url)

ScanAssets(assets) == ScanLoop(assets, 1, None, None)

NotFoundMsg == "Could not find both client and server packages."

\* Variant of ResolveRelease that puts the server url first.
ResolveReleaseSwapped(release_info, current_tag) ==
    IF release_info.tag_name # current_tag
    THEN LET found == ScanAssets(release_info.assets)
         IN  IF found[1] # None /\ found[2] # None
             THEN Ok(Some(<<found[2][1], found[1][1]>>))
             ELSE Ok(Some(<<NotFoundMsg, "">>))
    ELSE Ok(None)

\* The tail of check_for_updates, once the release has been decoded.
ResolveRelease(release_info, current_tag) ==
    IF release_info.tag_name # current_tag
    THEN LET found == ScanAssets(release_info.assets)
         IN  IF found[1] # None /\ found[2] # None
             THEN Ok(Some(<<found[1][1], found[2][1]>>))
             ELSE Ok(Some(<<NotFoundMsg, "">>))
    ELSE Ok(None)

\* The three results of the resolver, as the caller sees them.
NoUpdate == Ok(None)

UpdateFound(client, server) == Ok(Some(<<client, server>>))

UpdateAmbiguous == Ok(Some(<<NotFoundMsg, "">>))

IsUpdateFound(r) == IsOk(r) /\ r # NoUpdate /\ r # UpdateAmbiguous

InitResolver ==
    /\ cfu_pc = "idle"
    /\ cfu_tag = "v1"
    /\ cfu_resp = None
    /\ cfu_release = None
    /\ cfu_result = None
    /\ cfu_requests = 0

\* The command is invoked with current_tag; client.get(..).send().await
\* either fails or yields a response.
CfuSend ==
    /\ UNCHANGED <<uvars, pvars, svars>>
    /\ cfu_pc = "idle"
    /\ \E tag \in Tags :
         /\ cfu_tag' = tag
         /\ cfu_requests' = cfu_requests + 1
         /\ cfu_release' = None
         /\ \/ /\ cfu_resp' = None
               /\ cfu_result' = Some(Err(<<"Failed to fetch latest release info: ", "send">>))
               /\ cfu_pc' = "done"
            \/ \E status \in Statuses, body \in Bodies :
                 /\ cfu_resp' = Some([status |-> status, body |-> body])
                 /\ cfu_result' = None
                 /\ cfu_pc' = "status"

\* if !response.status().is_success() { return Err(..) }
CfuStatus ==
    /\ UNCHANGED <<uvars, pvars, svars>>
    /\ cfu_pc = "status"
    /\ IF is_success(cfu_resp[1].status)
       THEN /\ cfu_pc' = "decode"
            /\ UNCHANGED cfu_result
       ELSE /\ cfu_pc' = "done"
            /\ cfu_result' = Some(Err(<<"GitHub API request failed with status: ",
                                        cfu_resp[1].status>>))
    /\ UNCHANGED <<cfu_tag, cfu_resp, cfu_release, cfu_requests>>

\* response.json().await, then the comparison of the tags and the scan.
CfuDecode ==
    /\ UNCHANGED <<uvars, pvars, svars>>
    /\ cfu_pc = "decode"
    /\ LET decoded == DecodeRelease(cfu_resp[1].body)
       IN  IF IsErr(decoded)
           THEN /\ cfu_result' = Some(Err(<<"Failed to parse latest release info: ",
                                            decoded[2]>>))
                /\ UNCHANGED cfu_release
           ELSE /\ cfu_release' = Some(decoded[2])
                /\ cfu_result' = Some(ResolveRelease(decoded[2], cfu_tag))
    /\ cfu_pc' = "done"
    /\ UNCHANGED <<cfu_tag, cfu_resp, cfu_requests>>

\* The command has returned; the frontend may invoke it again.
CfuReturn ==
    /\ UNCHANGED <<uvars, pvars, svars>>
    /\ cfu_pc = "done"
    /\ cfu_pc' = "idle"
    /\ cfu_resp' = None
    /\ cfu_release' = None
    /\ cfu_result' = None
    /\ cfu_requests' = 0
    /\ UNCHANGED cfu_tag

NextResolver == CfuSend \/ CfuStatus \/ CfuDecode \/ CfuReturn

\* ------------------------------------------------------------------------
\* Updater: download_and_extract_updates, download_file, extract_tar_gz
\* ------------------------------------------------------------------------

\* The two download tasks and the two extractions, in try_join! order.
Kinds == {"client", "server"}

Sibling(k) == IF k = "client" THEN "server" ELSE "client"

\* download_dir.join("client.tar.gz") / download_dir.join("server.tar.gz")
ArchivePath(k) == <<"updates", "/", k, ".tar.gz">>

\* Path::new("client_update") / Path::new("server_update")
ExtractDir(k) == <<k, "_update">>

Bytes == {"a", "b"}

\* Content left in the staging files and install roots by an earlier update.
OldContent == <<"z">>

\* Response bodies of the artifact urls.
ArchiveBodies == SeqUpTo(Bytes, MaxBody)

\* The first n elements of s.
Take(s, n) == SubSeq(s, 1, n)

\* s without its first n elements.
Drop(s, n) == SubSeq(s, n + 1, Len(s))

RECURSIVE Concat(_)
Concat(chunks) ==
    IF chunks = <<>> THEN <<>> ELSE Head(chunks) \o Concat(Tail(chunks))

\* A first install (nothing on disk) or a machine that was updated before.
InitUpdater ==
    /\ dae_pc = "idle"
    /\ dae_result = None
    /\ \/ /\ dirs = {}
          /\ files = [k \in Kinds |-> None]
          /\ roots = [k \in Kinds |-> None]
       \/ /\ dirs = {<<"updates">>} \cup {ExtractDir(k) : k \in Kinds}
          /\ files = [k \in Kinds |-> Some(OldContent)]
          /\ roots = [k \in Kinds |-> Some(<<OldContent, "unpacked">>)]
    /\ dl_pc = [k \in Kinds |-> "new"]
    /\ dl_body = [k \in Kinds |-> <<>>]
    /\ dl_chunks = [k \in Kinds |-> <<>>]
    /\ dl_cur = [k \in Kinds |-> <<>>]
    /\ wr = [k \in Kinds |-> None]
    /\ ex_pc = [k \in Kinds |-> "new"]

\* The command's early return with an error.
DaeFail(e) ==
    /\ dae_pc' = "done"
    /\ dae_result' = Some(Err(e))

\* fs::create_dir_all(&download_dir), then the first poll of the first
\* try_join!, which issues both requests.
DaeStart ==
    /\ UNCHANGED <<rvars, pvars, svars>>
    /\ dae_pc = "idle"
    /\ \/ /\ DaeFail(<<"Failed to create download directory: ", "io">>)
          /\ UNCHANGED <<dirs, dl_pc>>
       \/ /\ dirs' = dirs \cup {<<"updates">>}
          /\ dae_pc' = "downloading"
          /\ dl_pc' = [k \in Kinds |-> "send"]
          /\ UNCHANGED dae_result
    /\ UNCHANGED <<files, roots, dl_body, dl_chunks, dl_cur, wr, ex_pc>>

\* Variant of TryJoinFail in which the sibling future is not dropped.
JoinKeepSibling(pcs, k) == [pcs EXCEPT ![k] = "failed"]

\* try_join!: the first future to yield Err ends the join at once; the other
\* future, unless it has completed, is dropped where it stands.
TryJoinFail(pcs, k) ==
    [j \in Kinds |-> IF j = k THEN "failed"
                     ELSE IF pcs[j] = "ok" THEN "ok" ELSE "dropped"]

\* Variant of DownloadError that leaves the file name out of the message.
DownloadErrorAnonymous(k, what, detail) ==
    <<"Failed to download one or both files: ", <<what, <<"file">>, detail>>>>

\* The message of a failed download_file, as wrapped by the map_err of the
\* first try_join!.
DownloadError(k, what, detail) ==
    <<"Failed to download one or both files: ", <<what, ArchivePath(k), detail>>>>

\* download_file(k) returns Err: the join fails and the command returns.
DlFail(k, what, detail) ==
    /\ dl_pc' = TryJoinFail(dl_pc, k)
    /\ DaeFail(DownloadError(k, what, detail))

\* client.get(&url).send().await resolves, then the status check.
DlSend(k) ==
    /\ UNCHANGED <<rvars, pvars, svars>>
    /\ dae_pc = "downloading"
    /\ dl_pc[k] = "send"
    /\ \/ /\ DlFail(k, "Failed to download ", "send")
          /\ UNCHANGED dl_body
       \/ \E status \in Statuses, body \in ArchiveBodies :
            IF is_success(status)
            THEN /\ dl_pc' = [dl_pc EXCEPT ![k] = "create"]
                 /\ dl_body' = [dl_body EXCEPT ![k] = body]
                 /\ UNCHANGED <<dae_pc, dae_result>>
            ELSE /\ DlFail(k, "Failed to download, status ", status)
                 /\ UNCHANGED dl_body
    /\ UNCHANGED <<dirs, files, roots, dl_chunks, dl_cur, wr, ex_pc>>

\* fs::File::create(filename).await: creates the file or truncates it.
DlCreate(k) ==
    /\ UNCHANGED <<rvars, pvars, svars>>
    /\ dae_pc = "downloading"
    /\ dl_pc[k] = "create"
    /\ \/ /\ DlFail(k, "Failed to create file ", "io")
          /\ UNCHANGED files
       \/ /\ files' = [files EXCEPT ![k] = Some(<<>>)]
          /\ dl_pc' = [dl_pc EXCEPT ![k] = "stream"]
          /\ UNCHANGED <<dae_pc, dae_result>>
    /\ UNCHANGED <<dirs, roots, dl_body, dl_chunks, dl_cur, wr, ex_pc>>

\* stream.next().await resolves: a chunk of the remaining body, a read
\* error, or the end of the stream, where download_file returns Ok(()).
DlNext(k) ==
    /\ UNCHANGED <<rvars, pvars, svars>>
    /\ dae_pc = "downloading"
    /\ dl_pc[k] = "stream"
    /\ \/ /\ DlFail(k, "Error reading download stream for ", "io")
          /\ UNCHANGED <<dl_body, dl_chunks, dl_cur>>
       \/ /\ dl_body[k] # <<>>
          /\ \E n \in 1..Len(dl_body[k]) :
               /\ dl_cur' = [dl_cur EXCEPT ![k] = Take(dl_body[k], n)]
               /\ dl_chunks' = [dl_chunks EXCEPT
                                  ![k] = Append(@, Take(dl_body[k], n))]
               /\ dl_body' = [dl_body EXCEPT ![k] = Drop(@, n)]
          /\ dl_pc' = [dl_pc EXCEPT ![k] = "write"]
          /\ UNCHANGED <<dae_pc, dae_result>>
       \/ /\ dl_body[k] = <<>>
          /\ dl_pc' = [dl_pc EXCEPT ![k] = "ok"]
          /\ UNCHANGED <<dae_pc, dae_result, dl_body, dl_chunks, dl_cur>>
    /\ UNCHANGED <<dirs, files, roots, wr, ex_pc>>

\* The write the file has queued and not yet carried out.
Queued(bytes) == <<"queued", bytes>>

\* The error of a write that was carried out and failed, kept by the file
\* for the next operation on it.
WriteErr == <<"err">>

IsQueued(w) == w # None /\ w[1][1] = "queued"

\* file.write_all(&bytes).await on a tokio::fs::File.  The file first waits
\* for the write it queued before and reports that write's error, if any;
\* it then copies the bytes into its buffer, queues their write on the
\* blocking pool and returns Ok without waiting for it.
DlWrite(k) ==
    /\ UNCHANGED <<rvars, pvars, svars>>
    /\ dae_pc = "downloading"
    /\ dl_pc[k] = "write"
    /\ ~IsQueued(wr[k])
    /\ IF wr[k] = Some(WriteErr)
       THEN /\ DlFail(k, "Error writing to file ", "io")
            /\ wr' = [wr EXCEPT ![k] = None]
       ELSE /\ wr' = [wr EXCEPT ![k] = Some(Queued(dl_cur[k]))]
            /\ dl_pc' = [dl_pc EXCEPT ![k] = "stream"]
            /\ UNCHANGED <<dae_pc, dae_result>>
    /\ UNCHANGED <<dirs, files, roots, dl_body, dl_chunks, dl_cur, ex_pc>>

\* The blocking pool carries out a queued write.  It runs whether or not
\* download_file is still alive: the function never flushes the file, so
\* the last write is still queued when it returns and the file is dropped,
\* and the outcome of that write is seen by nobody.
BgWrite(k) ==
    /\ UNCHANGED <<rvars, pvars, svars>>
    /\ IsQueued(wr[k])
    /\ files[k] # None
    /\ \/ /\ files' = [files EXCEPT ![k] = Some(@[1] \o wr[k][1][2])]
          /\ wr' = [wr EXCEPT ![k] = None]
       \/ \E n \in 0..(Len(wr[k][1][2]) - 1) :
            /\ files' = [files EXCEPT ![k] = Some(@[1] \o Take(wr[k][1][2], n))]
            /\ wr' = [wr EXCEPT ![k] = Some(WriteErr)]
    /\ UNCHANGED <<dae_pc, dae_result, dirs, roots,
                   dl_pc, dl_body, dl_chunks, dl_cur, ex_pc>>

\* Both download futures are Ok: the first try_join! returns Ok.
DlJoined ==
    /\ UNCHANGED <<rvars, pvars, svars>>
    /\ dae_pc = "downloading"
    /\ \A k \in Kinds : dl_pc[k] = "ok"
    /\ dae_pc' = "mkdir_client"
    /\ UNCHANGED <<dae_result, dirs, files, roots,
                   dl_pc, dl_body, dl_chunks, dl_cur, wr, ex_pc>>

\* fs::create_dir_all(&client_extract_dir)
DaeMkClientDir ==
    /\ UNCHANGED <<rvars, pvars, svars>>
    /\ dae_pc = "mkdir_client"
    /\ \/ /\ DaeFail(<<"Failed to create client extract directory: ", "io">>)
          /\ UNCHANGED dirs
       \/ /\ dirs' = dirs \cup {ExtractDir("client")}
          /\ dae_pc' = "mkdir_server"
          /\ UNCHANGED dae_result
    /\ UNCHANGED <<files, roots, dl_pc, dl_body, dl_chunks, dl_cur, wr, ex_pc>>

\* fs::create_dir_all(&server_extract_dir), then the first poll of the
\* second try_join!, which issues both File::open calls.
DaeMkServerDir ==
    /\ UNCHANGED <<rvars, pvars, svars>>
    /\ dae_pc = "mkdir_server"
    /\ \/ /\ DaeFail(<<"Failed to create server extract directory: ", "io">>)
          /\ UNCHANGED <<dirs, ex_pc>>
       \/ /\ dirs' = dirs \cup {ExtractDir("server")}
          /\ dae_pc' = "extracting"
          /\ ex_pc' = [k \in Kinds |-> "opening"]
          /\ UNCHANGED dae_result
    /\ UNCHANGED <<files, roots, dl_pc, dl_body, dl_chunks, dl_cur, wr>>

\* The message of a failed extract_tar_gz, as wrapped by the map_err of the
\* second try_join!.
ExtractError(k, what) ==
    <<"Failed to extract one or both archives: ",
      IF what = "open"
      THEN <<"Failed to open archive ", ArchivePath(k), "io">>
      ELSE <<"Failed to extract ", ArchivePath(k), " to ", ExtractDir(k), "io">>>>

\* extract_tar_gz(k) returns Err: the join fails and the command returns.
ExFail(k, what) ==
    /\ ex_pc' = TryJoinFail(ex_pc, k)
    /\ DaeFail(ExtractError(k, what))

\* fs::File::open resolves and extract_tar_gz runs to its end without
\* suspending again: into_std() has nothing to wait for on a file just
\* opened, and GzDecoder / Archive::unpack are synchronous.  The archive is
\* read as it is on disk at that moment; an empty file is no gzip stream.
ExRun(k) ==
    /\ UNCHANGED <<rvars, pvars, svars>>
    /\ dae_pc = "extracting"
    /\ ex_pc[k] = "opening"
    /\ \/ /\ ExFail(k, "open")
          /\ UNCHANGED roots
       \/ /\ files[k] # None
          /\ ExFail(k, "unpack")
          /\ \/ UNCHANGED roots
             \/ /\ files[k][1] # <<>>
                /\ roots' = [roots EXCEPT ![k] = Some(<<files[k][1], "partial">>)]
       \/ /\ files[k] # None
          /\ files[k][1] # <<>>
          /\ roots' = [roots EXCEPT ![k] = Some(<<files[k][1], "unpacked">>)]
          /\ ex_pc' = [ex_pc EXCEPT ![k] = "ok"]
          /\ IF ex_pc[Sibling(k)] = "ok"
             THEN /\ dae_pc' = "done"
                  /\ dae_result' = Some(Ok("unit"))
             ELSE UNCHANGED <<dae_pc, dae_result>>
    /\ UNCHANGED <<dirs, files, dl_pc, dl_body, dl_chunks, dl_cur, wr>>

NextUpdater ==
    \/ DaeStart
    \/ \E k \in Kinds : DlSend(k) \/ DlCreate(k) \/ DlNext(k) \/ DlWrite(k)
    \/ \E k \in Kinds : BgWrite(k)
    \/ DlJoined
    \/ DaeMkClientDir
    \/ DaeMkServerDir
    \/ \E k \in Kinds : ExRun(k)

\* ------------------------------------------------------------------------
\* Port reclaimer: kill_process_using_port
\* ------------------------------------------------------------------------

\* The port start_server reclaims.
ServerPort == 12345

\* Process ids of the other processes of the machine.
Pids == 1..MaxPids

\* Pid 1 belongs to another user: lsof run by this user does not list its
\* sockets, and this user may not kill it.  netstat -ano lists every pid.
Foreign(p) == p = 1

\* The pids in s, in ascending order.
RECURSIVE SortedSeq(_)
SortedSeq(S) ==
    IF S = {} THEN <<>>
    ELSE LET m == CHOOSE x \in S : \A y \in S : x <= y
         IN  <<m>> \o SortedSeq(S \ {m})

\* Processes with a socket on the port: the listener and the processes
\* connected to or from it.
PortUsers == listener \cup clients

\* stdout of `lsof -ti :<port>`, trimmed: one pid per line, for the
\* processes of this user with a socket on the port.
LsofOutput == SortedSeq({p \in PortUsers : ~Foreign(p)})

\* The lines of `netstat -ano` that contain ":<port>", as their pid column:
\* one line for every socket on the port, in the order of the table.
NetstatLines == {s \in SeqUpTo(PortUsers, Cardinality(PortUsers)) :
                    /\ Len(s) = Cardinality(PortUsers)
                    /\ \A i, j \in 1..Len(s) : i # j => s[i] # s[j]}

\* pid_lines.first() and parts[4] of that line.
FirstPid(lines) == IF lines = <<>> THEN <<>> ELSE <<lines[1]>>

\* Variant of ProbeAfterMatch in which the probe listener outlives the call.
ProbeLeaked == TRUE

\* The listener bound by TcpListener::bind is a temporary of the match: it
\* is dropped when the Ok arm has been evaluated.
ProbeAfterMatch == FALSE

\* Variant of Unidentified that reports a free port.
UnidentifiedAsFree(port) == Ok(None)

\* The value returned when no pid was taken from the tool's output.
Unidentified(port) == Err(<<"Failed to identify process using port ", port>>)

\* The value returned once the kill command has been run.
Killed(pid, port) ==
    Ok(Some(<<"Killed process with PID ", pid, " using port ", port>>))

\* What `kill -9 <pid>` / `taskkill /PID <pid> /F` terminates: the process
\* named by the argument, when the argument is one pid of a live process of
\* this user; otherwise the command exits with an error and nothing dies.
KillTargets(pid) ==
    IF Len(pid) = 1 /\ pid[1] \in procs /\ ~Foreign(pid[1]) THEN {pid[1]} ELSE {}

InitPort ==
    /\ windows \in BOOLEAN
    /\ procs = Pids
    /\ listener = {}
    /\ clients = {}
    /\ probe_bound = FALSE
    /\ kp_pc = "idle"
    /\ kp_pid = <<>>
    /\ kp_result = None
    /\ kp_owner = {}
    /\ kp_cmds = <<>>
    /\ kp_out = None
    /\ kp_killed = {}

kpframe == <<kp_pc, kp_pid, kp_result, kp_owner, kp_cmds, kp_out, kp_killed>>

\* A process starts listening on the port.
EnvListen(p) ==
    /\ UNCHANGED <<rvars, uvars, svars>>
    /\ p \in procs
    /\ listener = {}
    /\ ~probe_bound
    /\ p \notin clients
    /\ listener' = {p}
    /\ UNCHANGED <<windows, procs, clients, probe_bound, kpframe>>

\* A process opens a connection to the listener.
EnvConnect(p) ==
    /\ UNCHANGED <<rvars, uvars, svars>>
    /\ p \in procs
    /\ listener # {}
    /\ p \notin PortUsers
    /\ clients' = clients \cup {p}
    /\ UNCHANGED <<windows, procs, listener, probe_bound, kpframe>>

\* A process exits on its own; its sockets are closed.
EnvExit(p) ==
    /\ UNCHANGED <<rvars, uvars, svars>>
    /\ p \in procs
    /\ procs' = procs \ {p}
    /\ listener' = listener \ {p}
    /\ clients' = clients \ {p}
    /\ UNCHANGED <<windows, probe_bound, kpframe>>

\* kill_process_using_port(port) is called: TcpListener::bind(addr).  On
\* Ok the port is free and the function returns Ok(None); on Err it goes on
\* to the inspection tool.
KpBindStep ==
    /\ kp_pc = "idle"
    /\ kp_owner' = listener
    /\ kp_cmds' = <<>>
    /\ kp_out' = None
    /\ kp_killed' = {}
    /\ kp_pid' = <<>>
    /\ IF listener = {} /\ ~probe_bound
       THEN /\ probe_bound' = ProbeAfterMatch
            /\ kp_result' = Some(Ok(None))
            /\ kp_pc' = "done"
       ELSE /\ kp_result' = None
            /\ kp_pc' = "inspect"
            /\ UNCHANGED probe_bound
    /\ UNCHANGED <<windows, procs, listener, clients>>

\* The function is called on its own.
KpBind ==
    /\ UNCHANGED <<rvars, uvars, svars>>
    /\ KpBindStep

\* Command::new("netstat") / Command::new("lsof") .output(): the tool
\* cannot be run, or its output is searched for a pid.
KpInspect ==
    /\ UNCHANGED <<rvars, uvars, svars>>
    /\ kp_pc = "inspect"
    /\ LET tool == IF windows THEN "netstat" ELSE "lsof"
       IN  \/ /\ kp_result' = Some(Err(<<"Failed to run ", tool, ": ", "io">>))
              /\ kp_pc' = "done"
              /\ UNCHANGED <<kp_cmds, kp_out, kp_pid>>
           \/ \E pid \in IF windows THEN {FirstPid(l) : l \in NetstatLines}
                         ELSE {LsofOutput} :
                /\ kp_cmds' = Append(kp_cmds, tool)
                /\ kp_out' = Some(pid)
                /\ kp_pid' = pid
                /\ IF pid = <<>>
                   THEN /\ kp_result' = Some(Unidentified(ServerPort))
                        /\ kp_pc' = "done"
                   ELSE /\ kp_pc' = "kill"
                        /\ UNCHANGED kp_result
    /\ UNCHANGED <<windows, procs, listener, clients, probe_bound,
                   kp_owner, kp_killed>>

\* Command::new("taskkill") / Command::new("kill") .output(): the command
\* cannot be run, or it is run and the function reports a kill without
\* looking at its exit status.
KpKill ==
    /\ UNCHANGED <<rvars, uvars, svars>>
    /\ kp_pc = "kill"
    /\ kp_pc' = "done"
    /\ \/ /\ kp_result' = Some(Err(<<"Failed to kill process: ", "io">>))
          /\ UNCHANGED <<procs, listener, clients, kp_cmds, kp_killed>>
       \/ /\ kp_cmds' = Append(kp_cmds, IF windows THEN "taskkill" ELSE "kill")
          /\ kp_killed' = KillTargets(kp_pid)
          /\ procs' = procs \ KillTargets(kp_pid)
          /\ listener' = listener \ KillTargets(kp_pid)
          /\ clients' = clients \ KillTargets(kp_pid)
          /\ kp_result' = Some(Killed(kp_pid, ServerPort))
    /\ UNCHANGED <<windows, probe_bound, kp_pid, kp_owner, kp_out>>

\* The call has returned; the function may be called again.
KpReturn ==
    /\ UNCHANGED <<rvars, uvars, svars>>
    /\ kp_pc = "done"
    /\ ss_pc # "reclaim"
    /\ kp_pc' = "idle"
    /\ kp_result' = None
    /\ UNCHANGED <<windows, procs, listener, clients, probe_bound,
                   kp_pid, kp_owner, kp_cmds, kp_out, kp_killed>>

NextPort ==
    \/ \E p \in Pids : EnvListen(p) \/ EnvConnect(p) \/ EnvExit(p)
    \/ KpBind
    \/ KpInspect
    \/ KpKill
    \/ KpReturn

\* ------------------------------------------------------------------------
\* Process supervisor: start_game, start_server and its relay tasks,
\* stop_server, stop_game and the listeners registered by run
\* ------------------------------------------------------------------------

\* The pids the operating system gives to the processes the supervisor
\* spawns.
ChildPids == (MaxPids + 1)..(MaxPids + MaxChildren)

Streams == {"stdout", "stderr"}

\* The player names the frontend may pass to start_game, as fragment
\* sequences, and the address it passes.
Names == { <<"bob">>, <<"server.bin">> }

Ip == <<"10.0.0.1">>

\* What a read of a line from a pipe yields: the text of a line, or an
\* error (the bytes are not UTF-8, or the read fails).
Lines == {"a", "b"}

ReadError == "read-error"

Items == Lines \cup {ReadError}

\* The file name of the executable of a kind.
ExeName(kind) == IF kind = "server" THEN "server.bin" ELSE "client.bin"

\* The path of the executable, as directory and file name.
ExePath(kind) ==
    IF kind = "server" THEN <<"./server_update/", ExeName(kind)>>
    ELSE <<"./client_update/client.dist/", ExeName(kind)>>

\* The command line of a spawned process: the program and its arguments.
ChildCmdline(kind, name) ==
    IF kind = "server" THEN <<ExePath(kind)>>
    ELSE <<ExePath(kind), <<"--name">>, name, <<"--ip">>, Ip>>

\* The command lines of the other processes of the machine: pid 2 is a
\* server started by hand, the others are unrelated programs.
OtherCmdline(p) ==
    IF p = 2 THEN << <<"/opt/game/", "server.bin">> >>
    ELSE << <<"/usr/bin/", "other">> >>

Cmdline(p) ==
    IF p \in ChildPids
    THEN IF children[p] = None THEN <<>>
         ELSE ChildCmdline(children[p][1].kind, children[p][1].name)
    ELSE OtherCmdline(p)

\* The file name of the program a process runs.
ImageName(p) ==
    IF Cmdline(p) = <<>> THEN "" ELSE Cmdline(p)[1][Len(Cmdline(p)[1])]

\* pkill -f <pattern>: the pattern is searched in the whole command line.
MatchesCmdline(p, pattern) ==
    \E i \in 1..Len(Cmdline(p)) :
       \E j \in 1..Len(Cmdline(p)[i]) : Cmdline(p)[i][j] = pattern

\* taskkill /F /IM <name>: the name is compared with the image name.
MatchesImage(p, name) == ImageName(p) = name

\* The processes a termination command of a stop listener terminates: the
\* live processes of this user that its pattern selects.
StopTargets(pattern) ==
    {p \in procs : /\ ~Foreign(p)
                   /\ IF windows THEN MatchesImage(p, pattern)
                      ELSE MatchesCmdline(p, pattern)}

\* The names of the events.
ProcessEvent(kind) == IF kind = "server" THEN "server-process" ELSE "game-process"

StopEvent(kind) == IF kind = "server" THEN "stop-server" ELSE "stop-game"

\* Variant of LineEvent that reports every line as a log line.
LineEventLog(stream) == "server-log"

LineEvent(stream) == IF stream = "stdout" THEN "server-log" ELSE "server-error"

\* Variant of Announce that emits nothing.
AnnounceNothing(kind, pid) == <<>>

\* app_handle.emit("server-process" / "game-process", child.id()): an event
\* is a triple of its name, its payload and the process it is about.
Announce(kind, pid) == << <<ProcessEvent(kind), pid, pid>> >>

\* The children spawned so far.
Spawned == {p \in ChildPids : children[p] # None}

\* The servers among them.
Servers == {p \in Spawned : children[p][1].kind = "server"}

\* start_server is an async command and runs on a worker thread of the
\* runtime from its call to its return; a relay task that has been started
\* reads its pipe with blocking calls and keeps its worker thread until it
\* ends.
Busy ==
    Cardinality({ps \in ChildPids \X Streams : relay[ps[1]][ps[2]] = "running"})
      + (IF ss_pc \in {"reclaim", "lookup", "spawn", "relays"} THEN 1 ELSE 0)

\* The write end of a pipe is closed when the server closes it or dies.
StreamClosed(p, s) == closed[p][s] \/ p \notin procs

InitSupervisor ==
    /\ num_workers \in 1..MaxWorkers
    /\ exes \in SUBSET Kinds
    /\ children = [p \in ChildPids |-> None]
    /\ written = [p \in ChildPids |-> [s \in Streams |-> <<>>]]
    /\ rd = [p \in ChildPids |-> [s \in Streams |-> 0]]
    /\ closed = [p \in ChildPids |-> [s \in Streams |-> FALSE]]
    /\ relay = [p \in ChildPids |-> [s \in Streams |-> "none"]]
    /\ events = <<>>
    /\ ss_pc = "idle"
    /\ ss_result = None
    /\ ss_reclaim = None
    /\ ss_port = {}
    /\ ss_child = None
    /\ sg_result = None
    /\ sg_child = None
    /\ st_event = None
    /\ st_result = None
    /\ kills = {}
    /\ stopped = {}

ssframe == <<ss_pc, ss_result, ss_reclaim, ss_port, ss_child>>

pipeframe == <<written, rd, closed, relay>>

stopframe == <<st_event, st_result, kills, stopped>>

\* The errors of the two start commands.
ExeNotFound(kind) ==
    Err(<<IF kind = "server" THEN "Server executable not found"
          ELSE "Game executable not found">>)

\* Variant of SpawnFailed that reports a missing executable.
SpawnFailedAsNotFound(kind) == ExeNotFound(kind)

SpawnFailed(kind) ==
    Err(<<IF kind = "server" THEN "Failed to start server: "
          ELSE "Failed to launch game: ", "io">>)

\* start_server is called on a free worker thread and calls
\* kill_process_using_port(12345).
SsCall ==
    /\ UNCHANGED <<rvars, uvars>>
    /\ ss_pc = "idle"
    /\ Busy < num_workers
    /\ KpBindStep
    /\ ss_pc' = "reclaim"
    /\ ss_result' = None
    /\ ss_reclaim' = None
    /\ ss_port' = {}
    /\ ss_child' = None
    /\ UNCHANGED <<num_workers, exes, children, pipeframe, events,
                   sg_result, sg_child, stopframe>>

\* .unwrap() of the value the reclaimer returned: an Err is a panic of the
\* task that runs the command, which returns nothing to the frontend.
SsUnwrap ==
    /\ UNCHANGED <<rvars, uvars>>
    /\ ss_pc = "reclaim"
    /\ kp_pc = "done"
    /\ ss_reclaim' = kp_result
    /\ ss_pc' = IF IsErr(kp_result[1]) THEN "panicked" ELSE "lookup"
    /\ kp_pc' = "idle"
    /\ kp_result' = None
    /\ UNCHANGED <<windows, procs, listener, clients, probe_bound,
                   kp_pid, kp_owner, kp_cmds, kp_out, kp_killed>>
    /\ UNCHANGED <<num_workers, exes, children, pipeframe, events,
                   ss_result, ss_port, ss_child, sg_result, sg_child, stopframe>>

\* if !game_path.exists() { return Err(..) }
SsLookup ==
    /\ UNCHANGED <<rvars, uvars, pvars>>
    /\ ss_pc = "lookup"
    /\ IF "server" \in exes
       THEN /\ ss_pc' = "spawn"
            /\ UNCHANGED ss_result
       ELSE /\ ss_pc' = "done"
            /\ ss_result' = Some(ExeNotFound("server"))
    /\ UNCHANGED <<num_workers, exes, children, pipeframe, events,
                   ss_reclaim, ss_port, ss_child, sg_result, sg_child, stopframe>>

\* cmd.spawn() with both streams piped: on Err the command returns the
\* error; on Ok the pid is emitted as server-process.
SsSpawn ==
    /\ UNCHANGED <<rvars, uvars>>
    /\ ss_pc = "spawn"
    /\ \/ /\ ss_pc' = "done"
          /\ ss_result' = Some(SpawnFailed("server"))
          /\ UNCHANGED <<procs, children, events, ss_port, ss_child>>
       \/ \E pid \in ChildPids \ Spawned :
            /\ procs' = procs \cup {pid}
            /\ children' = [children EXCEPT
                              ![pid] = Some([kind |-> "server", name |-> <<>>])]
            /\ events' = events \o Announce("server", pid)
            /\ ss_port' = listener
            /\ ss_child' = Some(pid)
            /\ ss_pc' = "relays"
            /\ UNCHANGED ss_result
    /\ UNCHANGED <<windows, listener, clients, probe_bound, kpframe>>
    /\ UNCHANGED <<num_workers, exes, pipeframe, ss_reclaim,
                   sg_result, sg_child, stopframe>>

\* child.stdout.take(), child.stderr.take(), the two task::spawn calls and
\* the return of Ok(()).
SsRelays ==
    /\ UNCHANGED <<rvars, uvars, pvars>>
    /\ ss_pc = "relays"
    /\ relay' = [relay EXCEPT ![ss_child[1]] = [s \in Streams |-> "queued"]]
    /\ ss_result' = Some(Ok(<<>>))
    /\ ss_pc' = "done"
    /\ UNCHANGED <<num_workers, exes, children, written, rd, closed, events,
                   ss_reclaim, ss_port, ss_child, sg_result, sg_child, stopframe>>

\* The frontend has the outcome of the call and may call again; what the
\* call and the reclaimer it ran kept in their locals is gone.
SsReturn ==
    /\ UNCHANGED <<rvars, uvars>>
    /\ ss_pc \in {"done", "panicked"}
    /\ ss_pc' = "idle"
    /\ ss_result' = None
    /\ ss_reclaim' = None
    /\ ss_port' = {}
    /\ ss_child' = None
    /\ kp_pid' = <<>>
    /\ kp_owner' = {}
    /\ kp_cmds' = <<>>
    /\ kp_out' = None
    /\ kp_killed' = {}
    /\ UNCHANGED <<windows, procs, listener, clients, probe_bound, kp_pc, kp_result>>
    /\ UNCHANGED <<num_workers, exes, children, pipeframe, events,
                   sg_result, sg_child, stopframe>>

\* start_game(name, ip), a synchronous command.
start_game(name) ==
    /\ UNCHANGED <<rvars, uvars>>
    /\ IF "client" \notin exes
       THEN /\ sg_result' = Some(ExeNotFound("client"))
            /\ sg_child' = None
            /\ UNCHANGED <<procs, children, events>>
       ELSE \/ /\ sg_result' = Some(SpawnFailed("client"))
               /\ sg_child' = None
               /\ UNCHANGED <<procs, children, events>>
            \/ \E pid \in ChildPids \ Spawned :
                 /\ procs' = procs \cup {pid}
                 /\ children' = [children EXCEPT
                                   ![pid] = Some([kind |-> "client", name |-> name])]
                 /\ events' = events \o Announce("client", pid)
                 /\ sg_result' = Some(Ok(<<>>))
                 /\ sg_child' = Some(pid)
    /\ UNCHANGED <<windows, listener, clients, probe_bound, kpframe>>
    /\ UNCHANGED <<num_workers, exes, pipeframe, ssframe, stopframe>>

\* stop_server / stop_game, async commands: app_handle.emit of the stop
\* event, which runs the listener registered by run.  The listener spawns
\* pkill (taskkill on Windows) and does not wait for it; a failure to spawn
\* it is dropped by .ok().  A termination command remembers the children
\* that had been spawned when it was issued.
stop(kind) ==
    /\ UNCHANGED <<rvars, uvars, pvars>>
    /\ Busy < num_workers
    /\ st_event' = Some(StopEvent(kind))
    /\ st_result' = Some(Ok(<<>>))
    /\ \/ kills' = kills \cup {[pattern |-> ExeName(kind), known |-> Spawned]}
       \/ UNCHANGED kills
    /\ UNCHANGED <<num_workers, exes, children, pipeframe, events,
                   ssframe, sg_result, sg_child, stopped>>

\* The termination commands a listener may spawn.
KillCommands == [pattern : {ExeName(kind) : kind \in Kinds}, known : SUBSET ChildPids]

\* A termination command spawned by a listener runs.
KillRun(k) ==
    /\ UNCHANGED <<rvars, uvars>>
    /\ k \in kills
    /\ kills' = kills \ {k}
    /\ procs' = procs \ StopTargets(k.pattern)
    /\ listener' = listener \ StopTargets(k.pattern)
    /\ clients' = clients \ StopTargets(k.pattern)
    /\ stopped' = stopped \cup
                    {[pattern |-> k.pattern, pid |-> p,
                      late |-> p \in ChildPids \ k.known] :
                        p \in StopTargets(k.pattern)}
    /\ UNCHANGED <<windows, probe_bound, kpframe>>
    /\ UNCHANGED <<num_workers, exes, children, pipeframe, events,
                   ssframe, sg_result, sg_child, st_event, st_result>>

\* A running server writes a line, or bytes that cannot be read as one.
EnvWrite(p, s, item) ==
    /\ UNCHANGED <<rvars, uvars, pvars>>
    /\ p \in Servers \cap procs
    /\ ~closed[p][s]
    /\ Len(written[p][s]) < MaxLines
    /\ written' = [written EXCEPT ![p][s] = Append(@, item)]
    /\ UNCHANGED <<num_workers, exes, children, rd, closed, relay, events,
                   ssframe, sg_result, sg_child, stopframe>>

\* A running server closes one of its streams.
EnvClose(p, s) ==
    /\ UNCHANGED <<rvars, uvars, pvars>>
    /\ p \in Servers \cap procs
    /\ ~closed[p][s]
    /\ closed' = [closed EXCEPT ![p][s] = TRUE]
    /\ UNCHANGED <<num_workers, exes, children, written, rd, relay, events,
                   ssframe, sg_result, sg_child, stopframe>>

\* A worker thread of the runtime takes up a spawned relay task.
RelayStart(p, s) ==
    /\ UNCHANGED <<rvars, uvars, pvars>>
    /\ relay[p][s] = "queued"
    /\ Busy < num_workers
    /\ relay' = [relay EXCEPT ![p][s] = "running"]
    /\ UNCHANGED <<num_workers, exes, children, written, rd, closed, events,
                   ssframe, sg_result, sg_child, stopframe>>

\* lines.next() yields Some(Ok(line)), which is emitted, or Some(Err(e)),
\* which ends the loop.
RelayRead(p, s) ==
    /\ UNCHANGED <<rvars, uvars, pvars>>
    /\ relay[p][s] = "running"
    /\ rd[p][s] < Len(written[p][s])
    /\ rd' = [rd EXCEPT ![p][s] = @ + 1]
    /\ LET item == written[p][s][rd[p][s] + 1]
       IN  IF item = ReadError
           THEN /\ relay' = [relay EXCEPT ![p][s] = "done"]
                /\ UNCHANGED events
           ELSE /\ events' = Append(events, <<LineEvent(s), item, p>>)
                /\ UNCHANGED relay
    /\ UNCHANGED <<num_workers, exes, children, written, closed,
                   ssframe, sg_result, sg_child, stopframe>>

\* lines.next() yields None at the end of the stream.
RelayEof(p, s) ==
    /\ UNCHANGED <<rvars, uvars, pvars>>
    /\ relay[p][s] = "running"
    /\ rd[p][s] = Len(written[p][s])
    /\ StreamClosed(p, s)
    /\ relay' = [relay EXCEPT ![p][s] = "done"]
    /\ UNCHANGED <<num_workers, exes, children, written, rd, closed, events,
                   ssframe, sg_result, sg_child, stopframe>>

\* stop_server and stop_game.
stop_server == stop("server")

stop_game == stop("client")

\* start_server among the other processes of the machine.
NextStart ==
    \/ \E p \in Pids : EnvListen(p) \/ EnvConnect(p) \/ EnvExit(p)
    \/ \E p \in ChildPids : EnvListen(p) \/ EnvExit(p)
    \/ KpInspect
    \/ KpKill
    \/ SsCall
    \/ SsUnwrap
    \/ SsLookup
    \/ SsSpawn
    \/ SsRelays
    \/ SsReturn

\* start_server and start_game and the processes they spawn.
NextLaunch ==
    \/ \E p \in ChildPids : EnvListen(p) \/ EnvExit(p)
    \/ KpInspect
    \/ KpKill
    \/ SsCall
    \/ SsUnwrap
    \/ SsLookup
    \/ SsSpawn
    \/ SsRelays
    \/ SsReturn
    \/ \E name \in Names : start_game(name)

\* start_server, the server it spawns and the relay tasks.
NextRelay ==
    \/ SsCall
    \/ SsUnwrap
    \/ SsLookup
    \/ SsSpawn
    \/ SsRelays
    \/ SsReturn
    \/ \E p \in ChildPids : EnvExit(p)
    \/ \E p \in ChildPids, s \in Streams :
          \/ \E item \in Items : EnvWrite(p, s, item)
          \/ EnvClose(p, s)
          \/ RelayStart(p, s)
          \/ RelayRead(p, s)
          \/ RelayEof(p, s)

\* The start and stop commands and the termination commands of the
\* listeners.
NextStop ==
    \/ SsCall
    \/ SsUnwrap
    \/ SsLookup
    \/ SsSpawn
    \/ SsRelays
    \/ SsReturn
    \/ \E name \in Names : start_game(name)
    \/ stop_server
    \/ stop_game
    \/ \E k \in KillCommands : KillRun(k)
    \/ \E p \in Pids \cup ChildPids : EnvExit(p)

NextSupervisor == NextStart \/ NextLaunch \/ NextRelay \/ NextStop

\* ------------------------------------------------------------------------
\* Specifications
\* ------------------------------------------------------------------------

Init == InitResolver /\ InitUpdater /\ InitPort /\ InitSupervisor

\* The other subsystems at rest: a first install, the unix build, no
\* executable on disk.
RestUpdater == InitUpdater /\ dirs = {}

RestPort == InitPort /\ ~windows

RestSupervisor == InitSupervisor /\ num_workers = 1 /\ exes = {}

Next == NextResolver \/ NextUpdater \/ NextPort \/ NextSupervisor

\* All commands of the backend, interleaved.
Spec == Init /\ [][Next]_vars

InitOnlyResolver == InitResolver /\ RestUpdater /\ RestPort /\ RestSupervisor

InitOnlyUpdater == InitResolver /\ InitUpdater /\ RestPort /\ RestSupervisor

InitOnlyPort == InitResolver /\ RestUpdater /\ InitPort /\ RestSupervisor

\* Any build, the server executable on disk or not, one worker thread.
InitOnlyStart ==
    InitResolver /\ RestUpdater /\ InitPort /\ InitSupervisor
       /\ num_workers = 1 /\ exes \subseteq {"server"}

\* Any build, any set of executables on disk, one worker thread.
InitOnlyLaunch ==
    InitResolver /\ RestUpdater /\ InitPort /\ InitSupervisor /\ num_workers = 1

\* The unix build with the server executable on disk, any number of worker
\* threads.
InitOnlyRelay ==
    InitResolver /\ RestUpdater /\ RestPort /\ InitSupervisor /\ exes = {"server"}

\* Any build with both executables on disk, one worker thread.
InitOnlyStop ==
    InitResolver /\ RestUpdater /\ InitPort /\ InitSupervisor
       /\ num_workers = 1 /\ exes = Kinds

\* The release resolver alone.
SpecResolver == InitOnlyResolver /\ [][NextResolver]_vars

\* The updater alone.
SpecUpdater == InitOnlyUpdater /\ [][NextUpdater]_vars

\* The port reclaimer and the other processes of the machine.
SpecPort == InitOnlyPort /\ [][NextPort]_vars

\* start_server, the port reclaimer, and the other processes of the
\* machine.
SpecStart == InitOnlyStart /\ [][NextStart]_vars

\* The two start commands and the processes they spawn.
SpecLaunch == InitOnlyLaunch /\ [][NextLaunch]_vars

\* start_server, its server and its relay tasks.
SpecRelay == InitOnlyRelay /\ [][NextRelay]_vars

\* The scheduling of the runtime: a command that has been called runs to
\* its return; a spawned task is taken up once worker threads keep becoming
\* idle; a started relay task goes on whenever its read can return.
FairRelay ==
    /\ WF_vars(SsUnwrap) /\ WF_vars(SsLookup) /\ WF_vars(SsSpawn)
    /\ WF_vars(SsRelays)
    /\ \A p \in ChildPids, s \in Streams :
          /\ SF_vars(RelayStart(p, s))
          /\ WF_vars(RelayRead(p, s))
          /\ WF_vars(RelayEof(p, s))

\* start_server, its server and its relay tasks, under that scheduling.
SpecRelayFair == InitOnlyRelay /\ [][NextRelay]_vars /\ FairRelay

\* The start and stop commands.
SpecStop == InitOnlyStop /\ [][NextStop]_vars

\* ------------------------------------------------------------------------
\* Properties of the release resolver
\* ------------------------------------------------------------------------

\* The naming convention of the release assets: <kind>-*.tar.gz.
NamedFor(name, kind) ==
    /\ Len(name) >= 2
    /\ name[1] = kind \o "-"
    /\ name[Len(name)] = ".tar.gz"

\* The positions in the asset list of the assets named for one kind.
AssetsFor(assets, kind) ==
    {i \in 1..Len(assets) : NamedFor(assets[i].name, kind)}

MinOf(S) == CHOOSE x \in S : \A y \in S : x <= y

MaxOf(S) == CHOOSE x \in S : \A y \in S : x >= y

\* A call that decoded a release and has returned.
Resolved == cfu_pc = "done" /\ cfu_release # None

\* C1: against a release with exactly one client and one server asset, a
\* call with another tag returns UpdateFound with the client asset's url
\* and then the server asset's url; a call with the release's own tag
\* returns NoUpdate whatever the assets are.
C1_FoundOrNoUpdate ==
    Resolved =>
      LET rel == cfu_release[1]
          cs  == AssetsFor(rel.assets, "client")
          ss  == AssetsFor(rel.assets, "server")
      IN  /\ (cfu_tag # rel.tag_name /\ Cardinality(cs) = 1 /\ Cardinality(ss) = 1)
                => cfu_result = Some(UpdateFound(
                       rel.assets[MinOf(cs)].browser_download_url,
                       rel.assets[MinOf(ss)].browser_download_url))
          /\ cfu_tag = rel.tag_name => cfu_result = Some(NoUpdate)

\* C1 witness: a three-asset release listing its server asset before its
\* client asset, with different urls, resolved to UpdateFound.
C1_Witness ==
    /\ Resolved
    /\ cfu_tag # cfu_release[1].tag_name
    /\ Len(cfu_release[1].assets) = 3
    /\ AssetsFor(cfu_release[1].assets, "server") = {1}
    /\ AssetsFor(cfu_release[1].assets, "client") = {3}
    /\ cfu_result = Some(UpdateFound("url-b", "url-a"))

\* C2 as stated: with another tag and zero or several assets named for the
\* server (or for the client), the call returns UpdateAmbiguous and never
\* UpdateFound.
C2_AmbiguousUnlessOneEach ==
    Resolved =>
      LET rel == cfu_release[1]
          cs  == AssetsFor(rel.assets, "client")
          ss  == AssetsFor(rel.assets, "server")
      IN  (cfu_tag # rel.tag_name /\ (Cardinality(cs) # 1 \/ Cardinality(ss) # 1))
             => /\ cfu_result = Some(UpdateAmbiguous)
                /\ ~IsUpdateFound(cfu_result[1])

RootUntouched(k) ==
    /\ roots[k] \in {None, Some(<<OldContent, "unpacked">>)}
    /\ ExtractDir(k) \in dirs <=> roots[k] # None

\* The command returned the error of the first try_join!.
FetchFailed ==
    /\ dae_pc = "done"
    /\ IsErr(dae_result[1])
    /\ dae_result[1][2][1] = "Failed to download one or both files: "

\* The first try_join! returned Ok.
FetchSucceeded ==
    \/ dae_pc \in {"mkdir_client", "mkdir_server", "extracting"}
    \/ /\ dae_pc = "done"
       /\ ~FetchFailed
       /\ dae_result[1] # Err(<<"Failed to create download directory: ", "io">>)

\* Every byte the response stream delivered is in the staging file.
FullyOnDisk(k) ==
    /\ dl_body[k] = <<>>
    /\ files[k] = Some(Concat(dl_chunks[k]))

\* C4 as stated: no extraction begins unless both downloads have completed
\* with every byte of their bodies written to disk; and after a failed
\* download the command has returned an error and the install roots are
\* neither created nor modified.
C4_ExtractOnlyCompleteDownloads ==
    /\ (\E k \in Kinds : ex_pc[k] # "new")
          => \A j \in Kinds : dl_pc[j] = "ok" /\ FullyOnDisk(j)
    /\ (\E k \in Kinds : dl_pc[k] = "failed")
          => /\ dae_pc = "done" /\ IsErr(dae_result[1])
             /\ \A j \in Kinds : RootUntouched(j)

IsPrefix(s, t) == Len(s) <= Len(t) /\ Take(t, Len(s)) = s

\* C5, in every state: the fetch succeeds exactly when both downloads
\* returned Ok, and a failed download makes the command fail with an error
\* that names that download's destination file.
C5_State ==
    /\ FetchSucceeded => \A k \in Kinds : dl_pc[k] = "ok"
    /\ ((\A k \in Kinds : dl_pc[k] = "ok") /\ dae_pc # "downloading")
          => FetchSucceeded
    /\ FetchFailed => \E k \in Kinds : dl_pc[k] = "failed"
    /\ \A k \in Kinds : dl_pc[k] = "failed" =>
          /\ FetchFailed
          /\ dae_result[1][2][2][2] = ArchivePath(k)
          /\ dl_pc[Sibling(k)] \in {"ok", "dropped"}

\* C5, in every step: no staging file is ever deleted, and the file of a
\* dropped download keeps what was written to it.
C5_Step ==
    \A k \in Kinds :
       files[k] # None =>
          /\ files'[k] # None
          /\ dl_pc'[k] = "dropped" => IsPrefix(files[k][1], files'[k][1])

\* C5: the fetch is all-or-nothing and fail-fast, names the failing file,
\* and leaves the other task's file on disk.
C5_AllOrNothing == [](C5_State) /\ [][C5_Step]_vars

\* C5 witness: the server download failed while the client download was
\* under way; the client download was dropped and its partly written file
\* is still on disk.
C5_Witness ==
    /\ FetchFailed
    /\ dl_pc["server"] = "failed"
    /\ dl_pc["client"] = "dropped"
    /\ dl_body["client"] # <<>>
    /\ files["client"] # None
    /\ files["client"][1] # <<>>
    /\ dae_result[1][2][2][2] = ArchivePath("server")

\* C6 as stated: once a download has returned Ok and its file has no write
\* left to carry out, the file holds exactly the concatenation of the
\* chunks delivered, in order, and nothing of its earlier content.
C6_FileIsConcatenation ==
    \A k \in Kinds :
       (dl_pc[k] = "ok" /\ ~IsQueued(wr[k]))
          => files[k] = Some(Concat(dl_chunks[k]))

\* This run has unpacked nothing into the install root.
NothingUnpacked(k) == roots[k] \in {None, Some(<<OldContent, "unpacked">>)}

\* The command returned the error of the second try_join!.
ExtractFailed ==
    /\ dae_pc = "done"
    /\ IsErr(dae_result[1])
    /\ dae_result[1][2][1] = "Failed to extract one or both archives: "

\* C7 as stated: a failed extraction does not keep its sibling from running
\* to its own completion or failure; the result is an error if either
\* failed and success only if both succeeded.
C7_SiblingStillRuns ==
    /\ \A k \in Kinds : ex_pc[k] = "failed" =>
          /\ ex_pc[Sibling(k)] \in {"ok", "failed"}
          /\ ExtractFailed
    /\ (dae_pc = "done" /\ IsOk(dae_result[1]))
          => \A k \in Kinds : ex_pc[k] = "ok"

\* C7 amended: a failed extraction ends the joint operation at once with an
\* error naming its archive; a sibling that had completed keeps its result,
\* a sibling that had not is dropped and unpacks nothing; the result is
\* success only if both succeeded.
C7_FailFast ==
    /\ \A k \in Kinds : ex_pc[k] = "failed" =>
          /\ ExtractFailed
          /\ dae_result[1][2][2][2] = ArchivePath(k)
          /\ ex_pc[Sibling(k)] \in {"ok", "dropped"}
          /\ ex_pc[Sibling(k)] = "dropped" => NothingUnpacked(Sibling(k))
    /\ ExtractFailed => \E k \in Kinds : ex_pc[k] = "failed"
    /\ (dae_pc = "done" /\ IsOk(dae_result[1]))
          => \A k \in Kinds : ex_pc[k] = "ok"

\* C7 witness: the client extraction failed first and the server
\* extraction was dropped before it unpacked anything.
C7_Witness ==
    /\ ExtractFailed
    /\ ex_pc["client"] = "failed"
    /\ ex_pc["server"] = "dropped"
    /\ files["server"] # None
    /\ files["server"][1] # <<>>
    /\ roots["server"] = None

\* ------------------------------------------------------------------------
\* Properties of the port reclaimer
\* ------------------------------------------------------------------------

\* The running call reports a kill.
ReportsKill ==
    /\ kp_pc = "done"
    /\ IsOk(kp_result[1])
    /\ kp_result[1] # Ok(None)

\* C8: a call made while nothing listens on the port returns None, runs
\* neither the inspection tool nor a kill command, terminates no process
\* and does not keep its probe listener.
C8_FreePortUntouched ==
    (kp_pc = "done" /\ kp_owner = {})
       => /\ kp_result = Some(Ok(None))
          /\ kp_cmds = <<>>
          /\ kp_killed = {}
          /\ ~probe_bound

\* C8 witness: such a call has returned, every process is alive and the
\* port is free.
C8_Witness ==
    /\ kp_pc = "done"
    /\ kp_owner = {}
    /\ kp_result = Some(Ok(None))
    /\ procs = Pids
    /\ listener = {}
    /\ ~probe_bound

\* C9 as stated: a call made while the port is bound reports a kill only
\* when the process that owned the port has been terminated; when the kill
\* command ran without terminating it, the call fails.
C9_KillReportedOnlyIfKilled ==
    /\ ReportsKill => kp_owner \cap procs = {}
    /\ (kp_pc = "done" /\ Len(kp_cmds) = 2 /\ kp_owner \cap procs # {})
          => IsErr(kp_result[1])

\* C10: a call made while the port is bound, whose inspection output gives
\* no pid, returns the error that the owner was not identified, runs no
\* kill command and terminates no process.
C10_Unidentified ==
    (kp_pc = "done" /\ kp_owner # {} /\ kp_out = Some(<<>>))
       => /\ kp_result = Some(Err(<<"Failed to identify process using port ",
                                     ServerPort>>))
          /\ Len(kp_cmds) = 1
          /\ kp_killed = {}

\* C10 witness: the port is held by another user's process, which the
\* inspection tool does not show; the call has returned and the process
\* still listens.
C10_Witness ==
    /\ kp_pc = "done"
    /\ ~windows
    /\ kp_owner = {1}
    /\ kp_out = Some(<<>>)
    /\ IsErr(kp_result[1])
    /\ listener = {1}

\* ------------------------------------------------------------------------
\* Claims about the failures of check_for_updates
\* ------------------------------------------------------------------------

\* The three outcomes that are no failure.
IsResolution(result) ==
    \/ result = NoUpdate
    \/ IsUpdateFound(result)
    \/ result = UpdateAmbiguous

\* C15: a call of check_for_updates sends exactly one request and never a
\* second one; a request that cannot be sent yields the fetch error, an
\* answer with a non-success status yields the status error, a body that
\* does not decode yields the parse error; and none of the three is a
\* resolution (no update, update found, update ambiguous), whatever the
\* caller's tag.
C15_OneRequestThenError ==
    /\ cfu_pc # "idle" => cfu_requests = 1
    /\ (cfu_pc = "done" /\ cfu_resp = None)
          => cfu_result = Some(Err(<<"Failed to fetch latest release info: ",
                                     "send">>))
    /\ (cfu_pc = "done" /\ cfu_resp # None /\ ~is_success(cfu_resp[1].status))
          => cfu_result = Some(Err(<<"GitHub API request failed with status: ",
                                     cfu_resp[1].status>>))
    /\ (cfu_pc = "done" /\ cfu_resp # None /\ is_success(cfu_resp[1].status)
           /\ cfu_resp[1].body = BadJson)
          => cfu_result = Some(Err(<<"Failed to parse latest release info: ",
                                     "json">>))
    /\ (cfu_pc = "done"
           /\ (cfu_resp = None \/ ~is_success(cfu_resp[1].status)
                 \/ cfu_resp[1].body = BadJson))
          => /\ IsErr(cfu_result[1])
             /\ ~IsResolution(cfu_result[1])

\* C15 witness: the endpoint answered 200 with a body that is no JSON while
\* the caller's tag is the one the empty default release would carry; the
\* call has returned the parse error after one request.
C15_Witness ==
    /\ cfu_pc = "done"
    /\ cfu_tag = "v1"
    /\ cfu_resp # None
    /\ cfu_resp[1].status = 200
    /\ cfu_resp[1].body = BadJson
    /\ cfu_requests = 1
    /\ cfu_result = Some(Err(<<"Failed to parse latest release info: ", "json">>))

\* ------------------------------------------------------------------------
\* Claims about the process supervisor
\* ------------------------------------------------------------------------

\* The port reclaimer has returned an error to the running start_server.
ReclaimFailed == ss_reclaim # None /\ IsErr(ss_reclaim[1])

\* C11: when the port reclaimer fails inside start_server, the call returns
\* an error value to its caller, the error of the reclaimer, and it has
\* spawned no server, emitted no server-process event and started no relay
\* task.
C11_ReclaimErrorReturned ==
    ReclaimFailed
       => /\ ss_pc = "done"
          /\ ss_result = ss_reclaim
          /\ ss_child = None
          /\ Servers = {}
          /\ \A p \in ChildPids, s \in Streams : relay[p][s] = "none"

\* The payloads of the events with a name that are about process p, in the
\* order in which the frontend received them.
Texts(name, p) ==
    LET Is(e) == e[1] = name /\ e[3] = p
        sel == SelectSeq(events, Is)
    IN  [i \in 1..Len(sel) |-> sel[i][2]]

\* Sequence a is an initial part of sequence b.
StartsSeq(a, b) == Len(a) <= Len(b) /\ \A i \in 1..Len(a) : a[i] = b[i]

\* Every read of the stream yields a line.
Clean(p, s) == \A i \in 1..Len(written[p][s]) : written[p][s][i] \in Lines

\* Both relay tasks of server p have ended.
Relayed(p) == \A s \in Streams : relay[p][s] = "done"

\* C12: for a server whose two streams carry lines only, the server-log
\* events are at any time a prefix of its stdout lines and the server-error
\* events a prefix of its stderr lines, text for text and in order; once
\* both streams are closed and both relay tasks have ended, there is exactly
\* one server-log event per stdout line and one server-error event per
\* stderr line.
C12_OneEventPerLine ==
    \A p \in ChildPids :
       (Clean(p, "stdout") /\ Clean(p, "stderr"))
          => /\ StartsSeq(Texts("server-log", p), written[p]["stdout"])
             /\ StartsSeq(Texts("server-error", p), written[p]["stderr"])
             /\ (Relayed(p) /\ StreamClosed(p, "stdout") /\ StreamClosed(p, "stderr"))
                   => /\ Texts("server-log", p) = written[p]["stdout"]
                      /\ Texts("server-error", p) = written[p]["stderr"]

\* C12 witness: a server wrote two lines to stdout and one to stderr and
\* closed both; the relay tasks have ended and the stderr line reached the
\* frontend between the two stdout lines.
C12_Witness ==
    \E p \in ChildPids :
       /\ written[p]["stdout"] = <<"a", "b">>
       /\ written[p]["stderr"] = <<"b">>
       /\ closed[p]["stdout"] /\ closed[p]["stderr"]
       /\ Relayed(p)
       /\ Len(events) = 4
       /\ events[2] = <<"server-log", "a", p>>
       /\ events[3] = <<"server-error", "b", p>>
       /\ events[4] = <<"server-log", "b", p>>

\* A stop command has run in this step.
StopStep == st_event' # st_event \/ kills' \ kills # {}

\* C13: a stop command only broadcasts its event and returns success; it
\* terminates nothing itself.  The termination command of the listener
\* terminates every running process whose executable is the server (for
\* stop-server) or the client (for stop-game), spawned by the supervisor or
\* not, and no other process: processes of the other kind stay.
C13_StopByExecutableName ==
    [][ /\ StopStep => /\ procs' = procs
                       /\ events' = events
                       /\ st_result' = Some(Ok(<<>>))
                       /\ st_event' \in {Some("stop-server"), Some("stop-game")}
        /\ \A k \in kills \ kills' :
              /\ \A p \in procs : ImageName(p) = k.pattern => p \notin procs'
              /\ \A p \in procs \ procs' : ImageName(p) = k.pattern ]_vars

\* The number of events with a name that carry pid as their payload.
Announced(name, pid) ==
    Cardinality({i \in 1..Len(events) : events[i][1] = name /\ events[i][3] = pid
                                          /\ events[i][2] = pid})

\* The number of process-id events received so far.
ProcessEvents ==
    Cardinality({i \in 1..Len(events) :
                    events[i][1] \in {"server-process", "game-process"}})

\* C14: a start command whose executable is not on disk fails with the
\* error that the executable was not found, and a failed spawn fails with
\* another error; in both cases no process is spawned and no process-id
\* event emitted.  A successful spawn emits exactly one process-id event,
\* which carries the pid of the process just spawned.
C14_StartOutcomes ==
    /\ ProcessEvents = Cardinality(Spawned)
    /\ (ss_pc = "done" /\ "server" \notin exes)
          => ss_result = Some(Err(<<"Server executable not found">>))
    /\ (ss_pc = "done" /\ "server" \in exes)
          => \/ ss_result = Some(Err(<<"Failed to start server: ", "io">>))
             \/ ss_result = Some(Ok(<<>>))
    /\ (ss_pc = "done" /\ IsErr(ss_result[1])) => ss_child = None
    /\ (ss_pc = "done" /\ IsOk(ss_result[1])) => ss_child # None
    /\ ss_child # None
          => /\ ss_child[1] \in Servers
             /\ Announced("server-process", ss_child[1]) = 1
    /\ (sg_result # None /\ "client" \notin exes)
          => sg_result = Some(Err(<<"Game executable not found">>))
    /\ (sg_result # None /\ "client" \in exes)
          => \/ sg_result = Some(Err(<<"Failed to launch game: ", "io">>))
             \/ sg_result = Some(Ok(<<>>))
    /\ (sg_result # None /\ IsErr(sg_result[1])) => sg_child = None
    /\ (sg_result # None /\ IsOk(sg_result[1])) => sg_child # None
    /\ sg_child # None
          => /\ sg_child[1] \in Spawned \ Servers
             /\ Announced("game-process", sg_child[1]) = 1

\* C14 witness: start_server has returned Ok(()) after spawning a server,
\* and the one event received carries its pid; a start_game before it found
\* no executable.
C14_Witness ==
    /\ ss_pc = "done"
    /\ ss_result = Some(Ok(<<>>))
    /\ ss_child # None
    /\ events = << <<"server-process", ss_child[1], ss_child[1]>> >>
    /\ sg_result = Some(Err(<<"Game executable not found">>))

\* The stream has reached its end, or a read error is waiting in it.
Ending(p, s) ==
    \/ StreamClosed(p, s)
    \/ \E i \in (rd[p][s] + 1)..Len(written[p][s]) : written[p][s][i] = ReadError

\* C16: a relay task whose stream has reached its end or yields a read
\* error eventually ends.
C16_RelaysTerminate ==
    \A p \in ChildPids, s \in Streams :
       (relay[p][s] \in {"queued", "running"} /\ Ending(p, s))
          ~> (relay[p][s] = "done")

\* C17: the reclaim is best effort.  From the return of the port reclaimer
\* to the spawn of the server, start_server holds nothing on port 12345:
\* the probe listener is gone, and while the port is free any live process
\* can bind it.  A reclaim that succeeded followed by a spawn that
\* succeeded therefore does not make the port free at the spawn, as the
\* witness shows.
C17_PortOpenUntilSpawn ==
    ss_pc \in {"lookup", "spawn"}
       => /\ ~probe_bound
          /\ \A p \in procs :
                (listener = {} /\ p \notin clients) => ENABLED EnvListen(p)

\* C17 witness: the reclaimer reported to start_server that the port was
\* free, another process bound the port, and start_server then spawned the
\* server and returned Ok(()).
C17_Witness ==
    /\ ss_pc = "done"
    /\ ss_result = Some(Ok(<<>>))
    /\ ss_reclaim = Some(Ok(None))
    /\ ss_port # {}
    /\ ss_port \cap ChildPids = {}
    /\ listener = ss_port

\* C18: a stop request cannot terminate a server started after it: the
\* server of a start_server that returned Ok(()) is not terminated by the
\* termination command of a stop that had returned before that server was
\* spawned.
C18_StopSparesLaterServer ==
    (ss_pc = "done" /\ ss_result = Some(Ok(<<>>)))
       => \A r \in stopped : r.pid = ss_child[1] => ~r.late

\* C19: every server-log and server-error event comes after the
\* server-process event that carries the pid of the server whose line it
\* relays.
C19_PidBeforeLines ==
    \A i \in 1..Len(events) :
       events[i][1] \in {"server-log", "server-error"}
          => \E j \in 1..(i - 1) :
                /\ events[j][1] = "server-process"
                /\ events[j][2] = events[i][3]

\* C19 witness: the frontend has received the pid of a server and then a
\* line of its stderr, relayed while the server is still running.
C19_Witness ==
    \E p \in Servers \cap procs :
       /\ Len(events) = 2
       /\ events[1] = <<"server-process", p, p>>
       /\ events[2] = <<"server-error", "a", p>>

\* C20: the port reclaimer runs before the executable is looked up: when
\* start_server has failed because the executable was not found or could
\* not be spawned, every process that held port 12345 when it was called
\* has been terminated.
C20_FailedStartHasReclaimed ==
    (ss_pc = "done" /\ IsErr(ss_result[1])) => kp_owner \cap procs = {}

=============================================================================
